---- MODULE Spec2Model ----
(***************************************************************************)
(* Verification model of the notebooks of PortikAbel/ML2:                  *)
(*   - multihead-attention.ipynb (MultiHeadAttention, transpose_qkv,       *)
(*     transpose_output), explored by SpecMha,                             *)
(*   - the multi-channel convolution notebook (corr2d_multi_in,            *)
(*     corr2d_multi_in_out, corr2d_multi_in_out_1x1), explored call by     *)
(*     call by SpecConv and cell by cell by SpecConvNotebook,              *)
(*   - the tensor notebook (reshape, indexing, element writes, rebinding   *)
(*     and in-place arithmetic on arrays with an identity), explored       *)
(*     statement by statement by SpecTensor, and                           *)
(*   - all four notebooks as scripts that read and bind names, explored    *)
(*     cell by cell by SpecNotebooks.                                      *)
(*                                                                         *)
(* A tensor is a record [shape, data]: shape is the sequence of axis       *)
(* lengths and data holds the elements in row-major (C) order, which is    *)
(* the layout reshape preserves in jax, tensorflow and numpy.  Element     *)
(* values are integers: the model follows index arithmetic and exact       *)
(* sums and products, not floating-point rounding.  A library call that    *)
(* raises is modelled by the value Raised(..), which the callers           *)
(* propagate the way an uncaught Python exception does.                    *)
(***************************************************************************)
EXTENDS Integers, Sequences, FiniteSets, TLC

----------------------------------------------------------------------------
(* Bounds of the explored inputs.                                          *)

MaxChannels == 2      \* channels of an input or kernel: 1..MaxChannels
MaxSide     == 2      \* height and width of a convolution input
MaxKernel   == 2      \* height and width of a convolution kernel
MaxOffset   == 1      \* offsets of the generated element values
MaxBatch    == 2      \* batch_size
MaxSeqLen   == 2      \* number of queries, number of key-value pairs
MaxHeads    == 2      \* num_heads
MaxHiddens  == 4      \* num_hiddens
MaxSeed     == 2      \* PRNG keys used to initialise the Dense kernels
MaxRand     == 1      \* magnitude of the parameters of the random samples
MaxRows     == 3      \* rows of a reshaped array of the tensor notebook
MaxCols     == 4      \* columns of a reshaped array of the tensor notebook

----------------------------------------------------------------------------
(* Tensors.                                                                *)

RECURSIVE Prod(_)
Prod(s) == IF s = <<>> THEN 1 ELSE Head(s) * Prod(Tail(s))

RECURSIVE SumSeq(_)
SumSeq(s) == IF s = <<>> THEN 0 ELSE Head(s) + SumSeq(Tail(s))

\* Both fields are held as explicit sequences.
Tensor(shape, data) == [shape |-> shape \o <<>>, data |-> data \o <<>>]

Raised(what) == [error |-> what]

\* Python's None, and the value of a name that is not bound.
None == [none |-> TRUE]

IsError(T) == "error" \in DOMAIN T

Size(T) == Len(T.data)

\* Row-major stride of axis k (1-based) of a tensor of the given shape.
Stride(shape, k) == Prod(SubSeq(shape, k + 1, Len(shape)))

\* 0-based flat offset of the 0-based multi-index idx.
Ravel(idx, shape) ==
    SumSeq([k \in 1..Len(shape) |-> idx[k] * Stride(shape, k)])

\* 0-based multi-index of the 0-based flat offset off.
Unravel(off, shape) ==
    [k \in 1..Len(shape) |-> (off \div Stride(shape, k)) % shape[k]]

\* T[idx] for a full 0-based multi-index.
At(T, idx) == T.data[Ravel(idx, T.shape) + 1]

\* T[i], T[i, j] and T[i, j, k] of a tensor of that rank.
At1(T, i) == T.data[i + 1]
At2(T, i, j) == T.data[i * T.shape[2] + j + 1]
At3(T, i, j, k) == T.data[(i * T.shape[2] + j) * T.shape[3] + k + 1]

\* T[c]: the c-th (0-based) item along axis 0, as iteration and zip yield it.
Item(T, c) ==
    LET rest == Tail(T.shape)
        blk  == Prod(rest)
    IN  Tensor(rest, [o \in 1..blk |-> T.data[c * blk + o]])

\* The reshape that lays the elements out one column at a time.
Reshape_column_major(T, shape) ==
    IF Len(shape) = 2 /\ shape[1] > 0 /\ shape[2] > 0
    THEN IF shape[1] * shape[2] = Size(T)
         THEN Tensor(shape,
                     [o \in 1..Size(T) |->
                         T.data[((o - 1) % shape[2]) * shape[1]
                                  + ((o - 1) \div shape[2]) + 1]])
         ELSE Raised("reshape")
    ELSE Raised("reshape")

\* The reshape that takes every shape component literally.
Reshape_no_infer(T, shape) ==
    IF \A k \in 1..Len(shape) : shape[k] >= 0
    THEN IF Prod(shape) = Size(T) THEN Tensor(shape, T.data)
         ELSE Raised("reshape")
    ELSE Raised("reshape")

\* reshape: the same elements in the same row-major order under a new shape.
\* One component may be -1 and is then inferred from the size and the other
\* components; a shape that does not fit the size raises.
Reshape(T, shape) ==
    LET holes == {k \in 1..Len(shape) : shape[k] = -1}
        known == Prod([k \in 1..Len(shape) |->
                          IF shape[k] = -1 THEN 1 ELSE shape[k]])
    IN  IF holes = {}
        THEN IF known = Size(T) THEN Tensor(shape, T.data)
             ELSE Raised("reshape")
        ELSE IF Cardinality(holes) > 1 \/ known = 0 \/ Size(T) % known # 0
             THEN Raised("reshape")
             ELSE Tensor([k \in 1..Len(shape) |->
                             IF shape[k] = -1 THEN Size(T) \div known
                             ELSE shape[k]],
                         T.data)

\* transpose(T, perm): axis k of the result is axis perm[k] of T (0-based
\* axis numbers, as in the source).
Transpose(T, perm) ==
    LET n        == Len(perm)
        shape    == [k \in 1..n |-> T.shape[perm[k] + 1]]
        Inv(a)   == CHOOSE k \in 1..n : perm[k] + 1 = a
        Old(idx) == [a \in 1..n |-> idx[Inv(a)]]
    IN  Tensor(shape, [o \in 1..Prod(shape) |->
                          At(T, Old(Unravel(o - 1, shape)))])

\* stack(list, 0): a new leading axis indexing the listed tensors.
RECURSIVE Concat(_)
Concat(ss) == IF ss = <<>> THEN <<>> ELSE Head(ss) \o Concat(Tail(ss))

Stack(list) ==
    Tensor(<<Len(list)>> \o list[1].shape,
           Concat([c \in 1..Len(list) |-> list[c].data]))

\* T + s for a scalar s.
AddScalar(T, s) == Tensor(T.shape, [o \in 1..Size(T) |-> T.data[o] + s])

\* Elementwise product of two tensors of the same shape.
Mul(A, B) == Tensor(A.shape, [o \in 1..Size(A) |-> A.data[o] * B.data[o]])

\* reduce_sum(T): the sum of all elements.
ReduceSumAll(T) == SumSeq(T.data)

\* reduce_sum(list, axis=0): the listed tensors are stacked and summed along
\* the new axis.
ReduceSum0(list) ==
    LET S   == Stack(list)
        blk == Prod(Tail(S.shape))
    IN  Tensor(Tail(S.shape),
               [o \in 1..blk |->
                   SumSeq([c \in 1..S.shape[1] |-> S.data[(c - 1) * blk + o]])])

\* X[i : i + h, j : j + w] of a two-dimensional tensor.
Slice2(X, i, h, j, w) ==
    Tensor(<<h, w>>,
           [o \in 1..(h * w) |->
               At2(X, i + ((o - 1) \div w), j + ((o - 1) % w))])

\* matmul(A, B) of two matrices.
MatMul(A, B) ==
    LET m == A.shape[1]
        n == A.shape[2]
        p == B.shape[2]
    IN  Tensor(<<m, p>>,
               [o \in 1..(m * p) |->
                   SumSeq([k \in 1..n |->
                       At2(A, (o - 1) \div p, k - 1)
                         * At2(B, k - 1, (o - 1) % p)])])

----------------------------------------------------------------------------
(* The array operations of the tensor notebook.                            *)

Min(a, b) == IF a <= b THEN a ELSE b

Max(a, b) == IF a >= b THEN a ELSE b

\* X[i] for one integer index: it applies along axis 0, and a negative
\* index counts from the end.
Index0(T, i) ==
    LET n == T.shape[1]
        k == IF i < 0 THEN i + n ELSE i
    IN  IF k < 0 \/ k >= n THEN Raised("index") ELSE Item(T, k)

\* The slice that also takes the item at index stop.
Slice0_inclusive(T, start, stop) ==
    LET n   == T.shape[1]
        lo  == Min(start, n)
        hi  == Min(stop + 1, n)
        cnt == Max(hi - lo, 0)
        blk == Prod(Tail(T.shape))
    IN  Tensor(<<cnt>> \o Tail(T.shape),
               [o \in 1..(cnt * blk) |-> T.data[lo * blk + o]])

\* X[start:stop] for 0 <= start, stop: the items start, .., stop - 1 along
\* axis 0, both ends clipped to the length of the axis.
Slice0(T, start, stop) ==
    LET n   == T.shape[1]
        lo  == Min(start, n)
        hi  == Min(stop, n)
        cnt == Max(hi - lo, 0)
        blk == Prod(Tail(T.shape))
    IN  Tensor(<<cnt>> \o Tail(T.shape),
               [o \in 1..(cnt * blk) |-> T.data[lo * blk + o]])

\* The write that fills the whole row i.
SetItem2_row(T, i, j, v) ==
    IF i >= T.shape[1] \/ j >= T.shape[2] THEN Raised("index")
    ELSE Tensor(T.shape,
                [o \in 1..Size(T) |->
                    IF (o - 1) \div T.shape[2] = i THEN v ELSE T.data[o]])

\* X[i, j] = v for 0 <= i, j: the array after the write.
SetItem2(T, i, j, v) ==
    IF i >= T.shape[1] \/ j >= T.shape[2] THEN Raised("index")
    ELSE Tensor(T.shape,
                [o \in 1..Size(T) |->
                    IF o = i * T.shape[2] + j + 1 THEN v ELSE T.data[o]])

\* A + B for two arrays of the same shape.
Add(A, B) == Tensor(A.shape, [o \in 1..Size(A) |-> A.data[o] + B.data[o]])

\* zeros_like(T).
ZerosLike(T) == Tensor(T.shape, [o \in 1..Size(T) |-> 0])

\* The identity of an array is its position in the heap.  A new array is
\* appended, so its identity differs from that of every array made before.
New(heap, T) == Append(heap, T)

\* before = id(Y); Y = Y + X
RebindAdd(heap, env) ==
    [heap |-> New(heap, Add(heap[env.Y], heap[env.X])),
     env  |-> [env EXCEPT !.before = env.Y, !.Y = Len(heap) + 1]]

\* Z = np.zeros_like(Y); Z[:] = X + Y.  X + Y is a temporary array whose
\* elements are copied into the array Z is bound to.
SliceAssign(heap, env) ==
    LET h1 == New(heap, ZerosLike(heap[env.Y]))
        z  == Len(heap) + 1
        h2 == New(h1, Add(heap[env.X], heap[env.Y]))
        t  == Len(h1) + 1
    IN  [heap |-> [h2 EXCEPT ![z] = h2[t]],
         env  |-> [env EXCEPT !.Z = z]]

\* The augmented assignment that rebinds X to a new array, as X = X + Y.
InplaceAdd_rebind(heap, env) ==
    [heap |-> New(heap, Add(heap[env.X], heap[env.Y])),
     env  |-> [env EXCEPT !.before = env.X, !.X = Len(heap) + 1]]

\* before = id(X); X += Y
InplaceAdd(heap, env) ==
    [heap |-> [heap EXCEPT ![env.X] = Add(heap[env.X], heap[env.Y])],
     env  |-> [env EXCEPT !.before = env.X]]

----------------------------------------------------------------------------
(* Multi-channel cross-correlation.                                        *)

\* d2l.corr2d(X, K): two-dimensional cross-correlation.
corr2d(X, K) ==
    LET h  == K.shape[1]
        w  == K.shape[2]
        yh == X.shape[1] - h + 1
        yw == X.shape[2] - w + 1
    IN  Tensor(<<yh, yw>>,
               [o \in 1..(yh * yw) |->
                   ReduceSumAll(Mul(Slice2(X, (o - 1) \div yw, h,
                                              (o - 1) % yw, w), K))])

\* zip(X, K): pairs of items along axis 0, as many as the shorter has.
Zip(X, K) ==
    LET n == IF X.shape[1] <= K.shape[1] THEN X.shape[1] ELSE K.shape[1]
    IN  [c \in 1..n |-> <<Item(X, c - 1), Item(K, c - 1)>>]

corr2d_multi_in_first(X, K) == corr2d(Item(X, 0), Item(K, 0))

corr2d_multi_in_shift(X, K) ==
    LET pairs == Zip(X, K)
        n     == Len(pairs)
    IN  ReduceSum0([c \in 1..n |-> corr2d(pairs[c][1], pairs[(c % n) + 1][2])])

corr2d_multi_in_last(X, K) ==
    LET n == Len(Zip(X, K))
    IN  ReduceSum0([c \in 1..n |->
                       corr2d(Item(X, X.shape[1] - n + c - 1),
                              Item(K, K.shape[1] - n + c - 1))])

corr2d_multi_in(X, K) ==
    LET pairs == Zip(X, K)
    IN  ReduceSum0([c \in 1..Len(pairs) |-> corr2d(pairs[c][1], pairs[c][2])])

corr2d_multi_in_out_same(X, K) ==
    Stack([o \in 1..K.shape[1] |-> corr2d_multi_in(X, Item(K, 0))])

corr2d_multi_in_out_rev(X, K) ==
    Stack([o \in 1..K.shape[1] |->
              corr2d_multi_in(X, Item(K, K.shape[1] - o))])

corr2d_multi_in_out(X, K) ==
    Stack([o \in 1..K.shape[1] |-> corr2d_multi_in(X, Item(K, o - 1))])

corr2d_multi_in_out_1x1_hw(X, K) ==
    LET c_i == X.shape[1]
        h   == X.shape[2]
        w   == X.shape[3]
        c_o == K.shape[1]
        X2  == Transpose(Reshape(X, <<h * w, c_i>>), <<1, 0>>)
        K2  == Reshape(K, <<c_o, c_i>>)
    IN  IF IsError(K2) THEN K2
        ELSE Reshape(MatMul(K2, X2), <<c_o, h, w>>)

corr2d_multi_in_out_1x1_T(X, K) ==
    LET c_i == X.shape[1]
        h   == X.shape[2]
        w   == X.shape[3]
        c_o == K.shape[1]
        X2  == Reshape(X, <<c_i, h * w>>)
        K2  == Reshape(K, <<c_i, c_o>>)
    IN  IF IsError(K2) THEN K2
        ELSE Reshape(MatMul(Transpose(K2, <<1, 0>>), X2), <<c_o, h, w>>)

corr2d_multi_in_out_1x1_tap(X, K) ==
    LET c_i == X.shape[1]
        h   == X.shape[2]
        w   == X.shape[3]
        c_o == K.shape[1]
        X2  == Reshape(X, <<c_i, h * w>>)
        K2  == Tensor(<<c_o, c_i>>,
                      [o \in 1..(c_o * c_i) |->
                          K.data[(o - 1) * K.shape[3] * K.shape[4] + 1]])
    IN  IF K.shape[2] = c_i
        THEN Reshape(MatMul(K2, X2), <<c_o, h, w>>)
        ELSE IF IsError(Reshape(K, <<c_o, c_i>>))
             THEN Reshape(K, <<c_o, c_i>>)
             ELSE Reshape(MatMul(Reshape(K, <<c_o, c_i>>), X2), <<c_o, h, w>>)

corr2d_multi_in_out_1x1(X, K) ==
    LET c_i == X.shape[1]
        h   == X.shape[2]
        w   == X.shape[3]
        c_o == K.shape[1]
        X2  == Reshape(X, <<c_i, h * w>>)
        K2  == Reshape(K, <<c_o, c_i>>)
    IN  IF IsError(K2) THEN K2
        ELSE Reshape(MatMul(K2, X2), <<c_o, h, w>>)

----------------------------------------------------------------------------
(* Multi-head attention.                                                   *)

\* jnp.repeat(T, n, axis=0): each item along axis 0 is copied n times
\* consecutively.
Repeat(T, n) ==
    LET rest == Tail(T.shape)
        blk  == Prod(rest)
    IN  Tensor(<<T.shape[1] * n>> \o rest,
               [o \in 1..(T.shape[1] * n * blk) |->
                   T.data[(((o - 1) \div blk) \div n) * blk
                            + ((o - 1) % blk) + 1]])

\* jnp.tile(T, (n, 1, ..)): the whole tensor is copied n times along axis 0.
Tile(T, n) ==
    Tensor(<<T.shape[1] * n>> \o Tail(T.shape),
           [o \in 1..(Size(T) * n) |-> T.data[((o - 1) % Size(T)) + 1]])

\* nn.Dense(features, use_bias=False) with kernel W of shape (in, features),
\* applied to the last axis of X: Y[.., j] = sum over t of X[.., t] * W[t, j].
Dense(W, X) ==
    LET n   == Len(X.shape)
        in  == W.shape[1]
        out == W.shape[2]
    IN  Tensor([k \in 1..n |-> IF k = n THEN out ELSE X.shape[k]],
               [o \in 1..((Size(X) \div in) * out) |->
                   SumSeq([t \in 1..in |->
                       X.data[((o - 1) \div out) * in + t]
                         * W.data[(t - 1) * out + ((o - 1) % out) + 1]])])

\* The kernel a Dense layer is initialised with under PRNG key seed: entries
\* in {-1, 0, 1}.
Kernel(seed, in, out) ==
    Tensor(<<in, out>>,
           [o \in 1..(in * out) |->
               ((seed + 2 * ((o - 1) \div out) + ((o - 1) % out)) % 3) - 1])

\* The parameters init_with_output creates for inputs with in features.
InitParams(seed, in, num_hiddens) ==
    [W_q |-> Kernel(seed, in, num_hiddens),
     W_k |-> Kernel(seed + 1, in, num_hiddens),
     W_v |-> Kernel(seed + 2, in, num_hiddens),
     W_o |-> Kernel(seed, num_hiddens, num_hiddens)]

\* The number of key-value pairs query i of row r may attend to.
ValidLen(valid_lens, r, i, num_kv) ==
    IF valid_lens = None THEN num_kv
    ELSE IF Len(valid_lens.shape) = 1 THEN At1(valid_lens, r)
    ELSE At2(valid_lens, r, i)

\* d2l.DotProductAttention (training=False, so no dropout): the scores are
\* the dot products of queries and keys of the same row, positions at or
\* beyond the row's valid length are masked, and the output is the weighted
\* sum of the row's values.  The softmax normalisation and the 1/sqrt(d)
\* scaling of the library are left out: an unmasked weight is the raw score
\* and a masked weight is 0.
DotProductAttention(queries, keys, values, valid_lens) ==
    LET R   == queries.shape[1]
        nq  == queries.shape[2]
        nkv == keys.shape[2]
        d   == queries.shape[3]
        dv  == values.shape[3]
        weights ==
            Tensor(<<R, nq, nkv>>,
                [o \in 1..(R * nq * nkv) |->
                    LET r == (o - 1) \div (nq * nkv)
                        i == ((o - 1) \div nkv) % nq
                        p == (o - 1) % nkv
                    IN  IF p < ValidLen(valid_lens, r, i, nkv)
                        THEN SumSeq([t \in 1..d |->
                                At3(queries, r, i, t - 1)
                                  * At3(keys, r, p, t - 1)])
                        ELSE 0])
        output ==
            Tensor(<<R, nq, dv>>,
                [o \in 1..(R * nq * dv) |->
                    LET r == (o - 1) \div (nq * dv)
                        i == ((o - 1) \div dv) % nq
                        k == (o - 1) % dv
                    IN  SumSeq([p \in 1..nkv |->
                            At3(weights, r, i, p - 1)
                              * At3(values, r, p - 1, k)])])
    IN  [output |-> output, attention_weights |-> weights]

transpose_qkv_head_major(self, X) ==
    LET X1 == Reshape(X, <<X.shape[1], X.shape[2], self.num_heads, -1>>)
    IN  IF IsError(X1) THEN X1
        ELSE LET X2 == Transpose(X1, <<2, 0, 1, 3>>)
             IN  Reshape(X2, <<-1, X2.shape[3], X2.shape[4]>>)

transpose_qkv(self, X) ==
    LET X1 == Reshape(X, <<X.shape[1], X.shape[2], self.num_heads, -1>>)
    IN  IF IsError(X1) THEN X1
        ELSE LET X2 == Transpose(X1, <<0, 2, 1, 3>>)
             IN  Reshape(X2, <<-1, X2.shape[3], X2.shape[4]>>)

transpose_output_no_transpose(self, X) ==
    LET X1 == Reshape(X, <<-1, X.shape[2], self.num_heads, X.shape[3]>>)
    IN  IF IsError(X1) THEN X1
        ELSE Reshape(X1, <<X1.shape[1], X1.shape[2], -1>>)

transpose_output_no_concat(self, X) ==
    LET X1 == Reshape(X, <<-1, self.num_heads, X.shape[2], X.shape[3]>>)
    IN  IF IsError(X1) THEN X1
        ELSE Transpose(X1, <<0, 2, 1, 3>>)

transpose_output_head_major(self, X) ==
    LET X1 == Reshape(X, <<self.num_heads, -1, X.shape[2], X.shape[3]>>)
    IN  IF IsError(X1) THEN X1
        ELSE LET X2 == Transpose(X1, <<1, 2, 0, 3>>)
             IN  Reshape(X2, <<X2.shape[1], X2.shape[2], -1>>)

transpose_output(self, X) ==
    LET X1 == Reshape(X, <<-1, self.num_heads, X.shape[2], X.shape[3]>>)
    IN  IF IsError(X1) THEN X1
        ELSE LET X2 == Transpose(X1, <<0, 2, 1, 3>>)
             IN  Reshape(X2, <<X2.shape[1], X2.shape[2], -1>>)

repeat_valid_lens_tile(self, valid_lens) ==
    IF valid_lens # None THEN Tile(valid_lens, self.num_heads) ELSE valid_lens

\* Lines 185-188 of __call__: the valid_lens handed to the attention.
repeat_valid_lens(self, valid_lens) ==
    IF valid_lens # None THEN Repeat(valid_lens, self.num_heads)
    ELSE valid_lens

\* Lines 181-188 of __call__: the arguments handed to self.attention, or
\* the exception a transposition raised.
attention_arguments(self, params, queries, keys, values, valid_lens) ==
    LET q == transpose_qkv(self, Dense(params.W_q, queries))
        k == transpose_qkv(self, Dense(params.W_k, keys))
        v == transpose_qkv(self, Dense(params.W_v, values))
    IN  IF IsError(q) THEN q
        ELSE [queries |-> q, keys |-> k, values |-> v,
              valid_lens |-> repeat_valid_lens(self, valid_lens)]

\* Lines 190-196 of __call__: the attention on the transposed arguments,
\* the concatenation of the heads and the output projection.  The value is
\* the pair (W_o(output_concat), attention_weights), or the exception raised.
attention_and_output(self, params, args) ==
    IF IsError(args) THEN args
    ELSE LET att == DotProductAttention(args.queries, args.keys,
                                        args.values, args.valid_lens)
             output_concat == transpose_output(self, att.output)
         IN  IF IsError(output_concat) THEN output_concat
             ELSE [output |-> Dense(params.W_o, output_concat),
                   attention_weights |-> att.attention_weights]

\* Lines 181-195 of __call__ after the projections W_q, W_k, W_v: from the
\* projected queries, keys and values to output_concat.
output_concat(self, queries, keys, values, valid_lens) ==
    LET q == transpose_qkv(self, queries)
        k == transpose_qkv(self, keys)
        v == transpose_qkv(self, values)
    IN  IF IsError(q) THEN q
        ELSE transpose_output(self,
                 DotProductAttention(q, k, v,
                     repeat_valid_lens(self, valid_lens)).output)

----------------------------------------------------------------------------
(* State.                                                                  *)

VARIABLES
    conv_X,     \* convolution notebook: the input tensor X
    conv_K,     \* convolution notebook: the kernel tensor K
    conv_Y,     \* value of the last evaluated call (the cell's output)
    conv_Y1,    \* Y1 of the last cell
    conv_Y2,    \* Y2 of the last cell
    conv_op,    \* the call evaluated last
    conv_cell,  \* execution count of the cell executed last (0: none)
    mha_self,        \* the MultiHeadAttention module: num_hiddens, num_heads
    mha_queries,     \* argument queries
    mha_keys,        \* argument keys
    mha_values,      \* argument values
    mha_valid_lens,  \* argument valid_lens (None, 1-D or 2-D)
    mha_params,      \* the Dense kernels W_q, W_k, W_v, W_o, once initialised
    mha_args,        \* what __call__ handed to self.attention
    mha_result,      \* value returned (or exception raised) by the last call
    mha_op,          \* the method called last
    tn_heap,    \* tensor notebook: the array objects, indexed by identity
    tn_env,     \* tensor notebook: the object each name is bound to (0: unbound)
    tn_args,    \* literal arguments of the statement executed last
    tn_out,     \* value displayed (or exception raised) by the last statement
    tn_op,      \* the statement executed last
    nb_done,    \* per notebook: number of code cells executed so far
    nb_names,   \* per notebook: names bound in its kernel's namespace
    nb_error    \* names the last executed cell read while unbound

convVars == <<conv_X, conv_K, conv_Y, conv_Y1, conv_Y2, conv_op, conv_cell>>

mhaVars == <<mha_self, mha_queries, mha_keys, mha_values, mha_valid_lens,
             mha_params, mha_args, mha_result, mha_op>>

tnVars == <<tn_heap, tn_env, tn_args, tn_out, tn_op>>

nbVars == <<nb_done, nb_names, nb_error>>

vars == <<convVars, mhaVars, tnVars, nbVars>>

\* The notebook that is not being run holds nothing.
ConvIdle ==
    /\ conv_X = None
    /\ conv_K = None
    /\ conv_Y = None
    /\ conv_Y1 = None
    /\ conv_Y2 = None
    /\ conv_op = "init"
    /\ conv_cell = 0

MhaIdle ==
    /\ mha_self = None
    /\ mha_queries = None
    /\ mha_keys = None
    /\ mha_values = None
    /\ mha_valid_lens = None
    /\ mha_params = None
    /\ mha_args = None
    /\ mha_result = None
    /\ mha_op = "init"

TensorIdle ==
    /\ tn_heap = <<>>
    /\ tn_env = None
    /\ tn_args = None
    /\ tn_out = None
    /\ tn_op = "init"

NotebooksIdle ==
    /\ nb_done = None
    /\ nb_names = None
    /\ nb_error = {}

\* arange(size) + off, reshaped: all elements distinct, in row-major order.
Arange(shape, off) ==
    Tensor(shape, [o \in 1..Prod(shape) |-> off + o - 1])

\* Inputs of shape (c_i, h, w).
ConvInputs ==
    { Arange(<<c, h, w>>, x0) :
        c \in 1..MaxChannels, h \in 1..MaxSide, w \in 1..MaxSide,
        x0 \in 0..MaxOffset }

\* Kernels of shape (c, k_h, k_w) and (c_o, c, k_h, k_w); the channel count
\* is independent of the input's.
ConvKernels ==
    { Arange(<<c, kh, kw>>, k0) :
        c \in 1..MaxChannels, kh \in 1..MaxKernel, kw \in 1..MaxKernel,
        k0 \in (0 - MaxOffset)..0 }
    \cup
    { Arange(<<co, c, kh, kw>>, k0) :
        co \in 1..MaxChannels, c \in 1..MaxChannels,
        kh \in 1..MaxKernel, kw \in 1..MaxKernel, k0 \in (0 - MaxOffset)..0 }

KernelHeight(K) == K.shape[Len(K.shape) - 1]
KernelWidth(K)  == K.shape[Len(K.shape)]

\* The kernel window fits into the input.
Fits(X, K) == KernelHeight(K) <= X.shape[2] /\ KernelWidth(K) <= X.shape[3]

----------------------------------------------------------------------------
(* The convolution functions applied to bounded inputs.                    *)

InitConv ==
    /\ conv_X \in ConvInputs
    /\ conv_K \in {K \in ConvKernels : Fits(conv_X, K)}
    /\ conv_Y = None
    /\ conv_Y1 = None
    /\ conv_Y2 = None
    /\ conv_op = "init"
    /\ conv_cell = 0
    /\ MhaIdle
    /\ TensorIdle
    /\ NotebooksIdle

CallCorr2dMultiIn ==
    /\ Len(conv_K.shape) = 3
    /\ conv_Y' = corr2d_multi_in(conv_X, conv_K)
    /\ conv_op' = "corr2d_multi_in"
    /\ UNCHANGED <<conv_X, conv_K, conv_Y1, conv_Y2, conv_cell, mhaVars, tnVars, nbVars>>

CallCorr2dMultiInOut ==
    /\ Len(conv_K.shape) = 4
    /\ conv_Y' = corr2d_multi_in_out(conv_X, conv_K)
    /\ conv_op' = "corr2d_multi_in_out"
    /\ UNCHANGED <<conv_X, conv_K, conv_Y1, conv_Y2, conv_cell, mhaVars, tnVars, nbVars>>

CallCorr2dMultiInOut1x1 ==
    /\ Len(conv_K.shape) = 4
    /\ conv_Y' = corr2d_multi_in_out_1x1(conv_X, conv_K)
    /\ conv_op' = "corr2d_multi_in_out_1x1"
    /\ UNCHANGED <<conv_X, conv_K, conv_Y1, conv_Y2, conv_cell, mhaVars, tnVars, nbVars>>

NextConv ==
    \/ CallCorr2dMultiIn
    \/ CallCorr2dMultiInOut
    \/ CallCorr2dMultiInOut1x1

SpecConv == InitConv /\ [][NextConv]_vars

----------------------------------------------------------------------------
(* The attention methods applied to bounded inputs.                        *)

\* valid_lens: None, of shape (batch_size,), or (batch_size, no. of queries).
\* The lengths are 1, 2, ..: every entry differs from every other.
ValidLensChoices(batch_size, num_queries) ==
    { None,
      Arange(<<batch_size>>, 1),
      Arange(<<batch_size, num_queries>>, 1) }

InitMha ==
    /\ ConvIdle
    /\ TensorIdle
    /\ NotebooksIdle
    /\ \E num_hiddens \in 1..MaxHiddens, num_heads \in 1..MaxHeads :
          mha_self = [num_hiddens |-> num_hiddens, num_heads |-> num_heads]
    /\ \E batch_size \in 1..MaxBatch, num_queries \in 1..MaxSeqLen,
          num_kvpairs \in 1..MaxSeqLen :
          /\ mha_queries
               = Arange(<<batch_size, num_queries, mha_self.num_hiddens>>, 0)
          /\ mha_keys
               = Arange(<<batch_size, num_kvpairs, mha_self.num_hiddens>>, 1)
          /\ mha_values = mha_keys
          /\ mha_valid_lens \in ValidLensChoices(batch_size, num_queries)
    /\ mha_params = None
    /\ mha_args = None
    /\ mha_result = None
    /\ mha_op = "init"

\* attention.transpose_qkv(queries)
CallTransposeQkv ==
    /\ mha_op = "init"
    /\ mha_result' = transpose_qkv(mha_self, mha_queries)
    /\ mha_op' = "transpose_qkv"
    /\ UNCHANGED <<mha_self, mha_queries, mha_keys, mha_values,
                   mha_valid_lens, mha_params, mha_args, convVars, tnVars, nbVars>>

\* attention.transpose_output(..) of the tensor transpose_qkv returned
CallTransposeOutput ==
    /\ mha_op = "transpose_qkv"
    /\ ~IsError(mha_result)
    /\ mha_result' = transpose_output(mha_self, mha_result)
    /\ mha_op' = "transpose_output"
    /\ UNCHANGED <<mha_self, mha_queries, mha_keys, mha_values,
                   mha_valid_lens, mha_params, mha_args, convVars, tnVars, nbVars>>

\* attention.init_with_output(key, queries, keys, values, valid_lens,
\* training=False): the parameters are initialised from the key and
\* __call__ runs with them.
CallMultiHeadAttention ==
    /\ mha_op = "init"
    /\ \E seed \in 1..MaxSeed :
          mha_params' = InitParams(seed, mha_queries.shape[3],
                                   mha_self.num_hiddens)
    /\ mha_args' = attention_arguments(mha_self, mha_params', mha_queries,
                                       mha_keys, mha_values, mha_valid_lens)
    /\ mha_result' = attention_and_output(mha_self, mha_params', mha_args')
    /\ mha_op' = "__call__"
    /\ UNCHANGED <<mha_self, mha_queries, mha_keys, mha_values,
                   mha_valid_lens, convVars, tnVars, nbVars>>

NextMha ==
    \/ CallTransposeQkv
    \/ CallTransposeOutput
    \/ CallMultiHeadAttention

SpecMha == InitMha /\ [][NextMha]_vars

----------------------------------------------------------------------------
(* The convolution notebook, cell by cell in document order.               *)

\* |A - B| summed over all elements: float(tf.reduce_sum(tf.abs(Y1 - Y2))).
SumAbsDiff(A, B) ==
    SumSeq([o \in 1..Size(A) |->
               IF A.data[o] >= B.data[o] THEN A.data[o] - B.data[o]
               ELSE B.data[o] - A.data[o]])

\* A sample of tf.random.normal(shape): the element at flat offset p is
\* r0 + r1 * (p mod 2) + r2 * (p mod 3).
Sample(shape, r0, r1, r2) ==
    Tensor(shape, [o \in 1..Prod(shape) |->
                      r0 + r1 * ((o - 1) % 2) + r2 * ((o - 1) % 3)])

RandRange == (0 - MaxRand)..MaxRand

InitConvNotebook ==
    /\ ConvIdle
    /\ MhaIdle
    /\ TensorIdle
    /\ NotebooksIdle

\* Cells 1, 2, 4 and 7: the imports and the three function definitions.
CellDefine ==
    /\ conv_cell \in {0, 1, 3, 6}
    /\ conv_cell' = conv_cell + 1
    /\ conv_op' = "define"
    /\ conv_Y' = None
    /\ UNCHANGED <<conv_X, conv_K, conv_Y1, conv_Y2, mhaVars, tnVars, nbVars>>

\* Cell 3: X and K of the figure; corr2d_multi_in(X, K).
Cell3 ==
    /\ conv_cell = 2
    /\ conv_cell' = 3
    /\ conv_X' = Tensor(<<2, 3, 3>>, <<0, 1, 2, 3, 4, 5, 6, 7, 8,
                                      1, 2, 3, 4, 5, 6, 7, 8, 9>>)
    /\ conv_K' = Tensor(<<2, 2, 2>>, <<0, 1, 2, 3, 1, 2, 3, 4>>)
    /\ conv_Y' = corr2d_multi_in(conv_X', conv_K')
    /\ conv_op' = "corr2d_multi_in"
    /\ UNCHANGED <<conv_Y1, conv_Y2, mhaVars, tnVars, nbVars>>

\* Cell 5: K = tf.stack((K, K + 1, K + 2), 0); K.shape.
Cell5 ==
    /\ conv_cell = 4
    /\ conv_cell' = 5
    /\ conv_K' = Stack(<<conv_K, AddScalar(conv_K, 1), AddScalar(conv_K, 2)>>)
    /\ conv_Y' = [dims |-> conv_K'.shape]
    /\ conv_op' = "stack"
    /\ UNCHANGED <<conv_X, conv_Y1, conv_Y2, mhaVars, tnVars, nbVars>>

\* Cell 6: corr2d_multi_in_out(X, K).
Cell6 ==
    /\ conv_cell = 5
    /\ conv_cell' = 6
    /\ conv_Y' = corr2d_multi_in_out(conv_X, conv_K)
    /\ conv_op' = "corr2d_multi_in_out"
    /\ UNCHANGED <<conv_X, conv_K, conv_Y1, conv_Y2, mhaVars, tnVars, nbVars>>

\* Cell 8: random X and K, Y1, Y2 and the assertion.
Cell8 ==
    /\ conv_cell = 7
    /\ conv_cell' = 8
    /\ \E x0 \in RandRange, x1 \in RandRange, x2 \in RandRange,
          k0 \in RandRange, k1 \in RandRange, k2 \in RandRange :
          /\ conv_X' = Sample(<<3, 3, 3>>, x0, x1, x2)
          /\ conv_K' = Sample(<<2, 3, 1, 1>>, k0, k1, k2)
    /\ conv_Y1' = corr2d_multi_in_out_1x1(conv_X', conv_K')
    /\ conv_Y2' = corr2d_multi_in_out(conv_X', conv_K')
    /\ conv_Y' = IF SumAbsDiff(conv_Y1', conv_Y2') = 0 THEN None
                 ELSE Raised("AssertionError")
    /\ conv_op' = "assert"
    /\ UNCHANGED <<mhaVars, tnVars, nbVars>>

NextConvNotebook ==
    \/ CellDefine
    \/ Cell3
    \/ Cell5
    \/ Cell6
    \/ Cell8

SpecConvNotebook == InitConvNotebook /\ [][NextConvNotebook]_vars

----------------------------------------------------------------------------
(* The statements of the tensor notebook applied to bounded arguments.     *)

\* Y = np.array([[2, 1, 4, 3], [1, 2, 3, 4], [4, 3, 2, 1]])
NotebookY == Tensor(<<3, 4>>, <<2, 1, 4, 3, 1, 2, 3, 4, 4, 3, 2, 1>>)

\* Arrays of the shape of X for Y to be bound to.
ArrayChoices(shape) ==
    { Arange(shape, y0) : y0 \in 0..MaxOffset }
      \cup (IF shape = NotebookY.shape THEN {NotebookY} ELSE {})

\* A shape component: a length, or -1 for the component to infer.
ShapeArgs(max) == {-1} \cup (1..max)

InitTensor ==
    /\ ConvIdle
    /\ MhaIdle
    /\ NotebooksIdle
    /\ tn_heap = <<>>
    /\ tn_env = [x |-> 0, X |-> 0, Y |-> 0, Z |-> 0, before |-> 0]
    /\ tn_args = None
    /\ tn_out = None
    /\ tn_op = "init"

\* x = np.arange(n)
StmtArange ==
    /\ tn_op = "init"
    /\ \E n \in 1..(MaxRows * MaxCols) :
          /\ tn_heap' = New(tn_heap, Arange(<<n>>, 0))
          /\ tn_env' = [tn_env EXCEPT !.x = Len(tn_heap) + 1]
          /\ tn_args' = <<n>>
          /\ tn_out' = tn_heap'[tn_env'.x]
    /\ tn_op' = "arange"
    /\ UNCHANGED <<convVars, mhaVars, nbVars>>

\* X = x.reshape(h, w): when reshape raises, X is not bound.
StmtReshape ==
    /\ tn_op = "arange"
    /\ \E h \in ShapeArgs(MaxRows), w \in ShapeArgs(MaxCols) :
          LET R == Reshape(tn_heap[tn_env.x], <<h, w>>)
          IN  /\ tn_args' = <<h, w>>
              /\ tn_out' = R
              /\ IF IsError(R)
                 THEN UNCHANGED <<tn_heap, tn_env>>
                 ELSE /\ tn_heap' = New(tn_heap, R)
                      /\ tn_env' = [tn_env EXCEPT !.X = Len(tn_heap) + 1]
    /\ tn_op' = "reshape"
    /\ UNCHANGED <<convVars, mhaVars, nbVars>>

\* X[i], X[start:stop]: the cell displays the pair, or raises when the
\* index is out of range.
StmtIndexSlice ==
    /\ tn_op = "reshape"
    /\ tn_env.X # 0
    /\ \E i \in (0 - MaxRows)..(MaxRows - 1),
          start \in 0..MaxRows, stop \in 0..MaxRows :
          LET row == Index0(tn_heap[tn_env.X], i)
          IN  /\ tn_args' = <<i, start, stop>>
              /\ tn_out' = IF IsError(row) THEN row
                           ELSE [index |-> row,
                                 slice |-> Slice0(tn_heap[tn_env.X],
                                                  start, stop)]
    /\ tn_op' = "index_slice"
    /\ UNCHANGED <<tn_heap, tn_env, convVars, mhaVars, nbVars>>

\* X[i, j] = 17: when the index is out of range nothing is written.
StmtSetItem ==
    /\ tn_op = "reshape"
    /\ tn_env.X # 0
    /\ \E i \in 0..(MaxRows - 1), j \in 0..(MaxCols - 1) :
          LET R == SetItem2(tn_heap[tn_env.X], i, j, 17)
          IN  /\ tn_args' = <<i, j>>
              /\ tn_out' = R
              /\ tn_heap' = IF IsError(R) THEN tn_heap
                            ELSE [tn_heap EXCEPT ![tn_env.X] = R]
    /\ tn_op' = "setitem"
    /\ UNCHANGED <<tn_env, convVars, mhaVars, nbVars>>

\* Y = np.array(..), an array of the shape of X.
StmtArray ==
    /\ tn_op = "reshape"
    /\ tn_env.X # 0
    /\ \E Y \in ArrayChoices(tn_heap[tn_env.X].shape) :
          /\ tn_heap' = New(tn_heap, Y)
          /\ tn_env' = [tn_env EXCEPT !.Y = Len(tn_heap) + 1]
          /\ tn_out' = Y
    /\ tn_op' = "array"
    /\ UNCHANGED <<tn_args, convVars, mhaVars, nbVars>>

\* before = id(Y); Y = Y + X; id(Y) == before
StmtRebindAdd ==
    /\ tn_op = "array"
    /\ LET st == RebindAdd(tn_heap, tn_env)
       IN  /\ tn_heap' = st.heap
           /\ tn_env' = st.env
           /\ tn_out' = (st.env.Y = st.env.before)
    /\ tn_op' = "rebind_add"
    /\ UNCHANGED <<tn_args, convVars, mhaVars, nbVars>>

\* Z = np.zeros_like(Y); print(id(Z)); Z[:] = X + Y; print(id(Z)): the two
\* identities printed are those of the array Z is bound to once it is bound
\* and after the slice assignment.
StmtSliceAssign ==
    /\ tn_op = "array"
    /\ LET st == SliceAssign(tn_heap, tn_env)
       IN  /\ tn_heap' = st.heap
           /\ tn_env' = st.env
           /\ tn_out' = <<Len(tn_heap) + 1, st.env.Z>>
    /\ tn_op' = "slice_assign"
    /\ UNCHANGED <<tn_args, convVars, mhaVars, nbVars>>

\* before = id(X); X += Y; id(X) == before
StmtInplaceAdd ==
    /\ tn_op = "array"
    /\ LET st == InplaceAdd(tn_heap, tn_env)
       IN  /\ tn_heap' = st.heap
           /\ tn_env' = st.env
           /\ tn_out' = (st.env.X = st.env.before)
    /\ tn_op' = "iadd"
    /\ UNCHANGED <<tn_args, convVars, mhaVars, nbVars>>

NextTensor ==
    \/ StmtArange
    \/ StmtReshape
    \/ StmtIndexSlice
    \/ StmtSetItem
    \/ StmtArray
    \/ StmtRebindAdd
    \/ StmtSliceAssign
    \/ StmtInplaceAdd

SpecTensor == InitTensor /\ [][NextTensor]_vars

----------------------------------------------------------------------------
(* The four notebooks as scripts: the names their statements read and bind. *)

\* A statement: the global names it reads when it is executed and the
\* names it binds.  The names read by a call include those the body of the
\* called function reads; a def or class statement reads only its
\* decorators, base classes and annotations.
S(reads, writes) == [reads |-> reads, writes |-> writes]

\* Names of the builtins module that the notebooks use; every kernel has
\* them from the start.
Builtins ==
    {"print", "dir", "help", "id", "float", "int", "bool", "type", "zip"}

\* multihead-attention.ipynb, code cells 1-5.
AttentionCells ==
    << << S({}, {"jax"}), S({}, {"nn"}), S({}, {"jnp"}), S({}, {"d2l"}) >>,
       << S({"nn", "int", "float", "bool"}, {"MultiHeadAttention"}) >>,
       << S({"d2l", "MultiHeadAttention"}, {"transpose_qkv"}),
          S({"d2l", "MultiHeadAttention"}, {"transpose_output"}) >>,
       << S({}, {"num_hiddens", "num_heads"}),
          S({"MultiHeadAttention", "num_hiddens", "num_heads"},
            {"attention"}) >>,
       << S({}, {"batch_size", "num_queries", "num_kvpairs"}),
          S({"jnp"}, {"valid_lens"}),
          S({"jnp", "batch_size", "num_queries", "num_hiddens"}, {"X"}),
          S({"jnp", "batch_size", "num_kvpairs", "num_hiddens"}, {"Y"}),
          S({"d2l", "attention", "X", "Y", "valid_lens", "batch_size",
             "num_queries", "num_hiddens", "nn", "jnp"}, {}) >> >>

\* The tensor notebook (part_000), code cells 1-24.
TensorCells ==
    << << S({}, {"np", "npx"}), S({"npx"}, {}) >>,
       << S({"np"}, {"x"}), S({"x"}, {}) >>,
       << S({"x"}, {}) >>,
       << S({"x"}, {}) >>,
       << S({"x"}, {"X"}), S({"X"}, {}) >>,
       << S({"np"}, {}) >>,
       << S({"np"}, {}) >>,
       << S({"np"}, {}) >>,
       << S({"np"}, {}) >>,
       << S({"X"}, {}) >>,
       << S({"X"}, {}), S({"X"}, {}) >>,
       << S({"X"}, {}), S({"X"}, {}) >>,
       << S({"np", "x"}, {}) >>,
       << S({"np"}, {"x"}), S({"np"}, {"y"}), S({"x", "y"}, {}) >>,
       << S({"np"}, {"X"}), S({"np"}, {"Y"}), S({"np", "X", "Y"}, {}) >>,
       << S({"X", "Y"}, {}) >>,
       << S({"X"}, {}) >>,
       << S({"np"}, {"a"}), S({"np"}, {"b"}), S({"a", "b"}, {}) >>,
       << S({"a", "b"}, {}) >>,
       << S({"id", "Y"}, {"before"}), S({"Y", "X"}, {"Y"}),
          S({"id", "Y", "before"}, {}) >>,
       << S({"np", "Y"}, {"Z"}), S({"print", "id", "Z"}, {}),
          S({"Z", "X", "Y"}, {}), S({"print", "id", "Z"}, {}) >>,
       << S({"id", "X"}, {"before"}), S({"X", "Y"}, {"X"}),
          S({"id", "X", "before"}, {}) >>,
       << S({"X"}, {"A"}), S({"np", "A"}, {"B"}),
          S({"type", "A", "B"}, {}) >>,
       << S({"np"}, {"a"}), S({"a", "float", "int"}, {}) >> >>

\* The documentation notebook (part_001), code cells 1-4.
DocsCells ==
    << << S({}, {"tf"}) >>,
       << S({"print", "dir", "tf"}, {}) >>,
       << S({"help", "tf"}, {}) >>,
       << S({"tf"}, {}) >> >>

\* The convolution notebook with the first call of corr2d_multi_in ahead of
\* its definition.
ConvCells_call_before_def ==
    << << S({}, {"tf"}), S({}, {"d2l"}) >>,
       << S({"tf"}, {"X"}), S({"tf"}, {"K"}),
          S({"corr2d_multi_in", "X", "K", "tf", "d2l", "zip"}, {}) >>,
       << S({}, {"corr2d_multi_in"}) >>,
       << S({}, {"corr2d_multi_in_out"}) >>,
       << S({"tf", "K"}, {"K"}), S({"K"}, {}) >>,
       << S({"corr2d_multi_in_out", "X", "K", "tf", "corr2d_multi_in",
             "d2l", "zip"}, {}) >>,
       << S({}, {"corr2d_multi_in_out_1x1"}) >>,
       << S({"tf"}, {"X"}), S({"tf"}, {"K"}),
          S({"corr2d_multi_in_out_1x1", "X", "K", "tf"}, {"Y1"}),
          S({"corr2d_multi_in_out", "X", "K", "tf", "corr2d_multi_in",
             "d2l", "zip"}, {"Y2"}),
          S({"float", "tf", "Y1", "Y2"}, {}) >> >>

\* The convolution notebook (part_002), code cells 1-8.
ConvCells ==
    << << S({}, {"tf"}), S({}, {"d2l"}) >>,
       << S({}, {"corr2d_multi_in"}) >>,
       << S({"tf"}, {"X"}), S({"tf"}, {"K"}),
          S({"corr2d_multi_in", "X", "K", "tf", "d2l", "zip"}, {}) >>,
       << S({}, {"corr2d_multi_in_out"}) >>,
       << S({"tf", "K"}, {"K"}), S({"K"}, {}) >>,
       << S({"corr2d_multi_in_out", "X", "K", "tf", "corr2d_multi_in",
             "d2l", "zip"}, {}) >>,
       << S({}, {"corr2d_multi_in_out_1x1"}) >>,
       << S({"tf"}, {"X"}), S({"tf"}, {"K"}),
          S({"corr2d_multi_in_out_1x1", "X", "K", "tf"}, {"Y1"}),
          S({"corr2d_multi_in_out", "X", "K", "tf", "corr2d_multi_in",
             "d2l", "zip"}, {"Y2"}),
          S({"float", "tf", "Y1", "Y2"}, {}) >> >>

Notebooks == {"attention", "tensor", "docs", "conv"}

CellsOf(nb) ==
    CASE nb = "attention" -> AttentionCells
      [] nb = "tensor"    -> TensorCells
      [] nb = "docs"      -> DocsCells
      [] nb = "conv"      -> ConvCells

\* Executing the statements of a cell in a namespace: a statement that reads
\* an unbound name raises NameError and ends the cell; what the statements
\* before it bound stays bound.
RECURSIVE Exec(_, _)
Exec(names, stmts) ==
    IF stmts = <<>> THEN [names |-> names, error |-> {}]
    ELSE LET missing == Head(stmts).reads \ names
         IN  IF missing # {} THEN [names |-> names, error |-> missing]
             ELSE Exec(names \cup Head(stmts).writes, Tail(stmts))

\* Every notebook has a kernel of its own, started with the builtins only.
InitNotebooks ==
    /\ ConvIdle
    /\ MhaIdle
    /\ TensorIdle
    /\ nb_done = [nb \in Notebooks |-> 0]
    /\ nb_names = [nb \in Notebooks |-> Builtins]
    /\ nb_error = {}

\* The next code cell of notebook nb, in document order, in nb's kernel.
RunCell(nb) ==
    /\ nb_done[nb] < Len(CellsOf(nb))
    /\ LET r == Exec(nb_names[nb], CellsOf(nb)[nb_done[nb] + 1])
       IN  /\ nb_names' = [nb_names EXCEPT ![nb] = r.names]
           /\ nb_error' = r.error
    /\ nb_done' = [nb_done EXCEPT ![nb] = @ + 1]
    /\ UNCHANGED <<convVars, mhaVars, tnVars>>

RunAttentionCell == RunCell("attention")

RunTensorCell == RunCell("tensor")

RunDocsCell == RunCell("docs")

RunConvCell == RunCell("conv")

NextNotebooks ==
    \/ RunAttentionCell
    \/ RunTensorCell
    \/ RunDocsCell
    \/ RunConvCell

SpecNotebooks == InitNotebooks /\ [][NextNotebooks]_vars

----------------------------------------------------------------------------
(* Properties of the convolution functions.                                *)

\* X and K have the shapes (c_i, h, w) and (c_i, k_h, k_w).
MultiInShapes ==
    /\ Len(conv_X.shape) = 3
    /\ Len(conv_K.shape) = 3
    /\ conv_K.shape[1] = conv_X.shape[1]

\* X and K have the shapes (c_i, h, w) and (c_o, c_i, k_h, k_w).
MultiInOutShapes ==
    /\ Len(conv_X.shape) = 3
    /\ Len(conv_K.shape) = 4
    /\ conv_K.shape[2] = conv_X.shape[1]

\* K is a 1x1 kernel for X: shape (c_o, c_i, 1, 1).
OneByOneShapes ==
    /\ MultiInOutShapes
    /\ conv_K.shape[3] = 1
    /\ conv_K.shape[4] = 1

\* sum over c, a, b of X[c, i + a, j + b] * Kc[c, a, b], Kc of shape
\* (c_i, k_h, k_w).
CrossCorrelationSum(X, Kc, i, j) ==
    SumSeq([c \in 1..Kc.shape[1] |->
        SumSeq([a \in 1..Kc.shape[2] |->
            SumSeq([b \in 1..Kc.shape[3] |->
                At(X, <<c - 1, i + a - 1, j + b - 1>>)
                  * At(Kc, <<c - 1, a - 1, b - 1>>)])])])

\* C4: corr2d_multi_in(X, K) is the two-dimensional tensor of shape
\* (h - k_h + 1, w - k_w + 1) with
\* Y[i, j] = sum over c, a, b of X[c, i + a, j + b] * K[c, a, b].
C4_MultiInIsChannelSum ==
    (conv_op = "corr2d_multi_in" /\ MultiInShapes) =>
        /\ conv_Y.shape = <<conv_X.shape[2] - conv_K.shape[2] + 1,
                            conv_X.shape[3] - conv_K.shape[3] + 1>>
        /\ Len(conv_Y.data) = Prod(conv_Y.shape)
        /\ \A i \in 0..(conv_Y.shape[1] - 1), j \in 0..(conv_Y.shape[2] - 1) :
              At(conv_Y, <<i, j>>) = CrossCorrelationSum(conv_X, conv_K, i, j)

C4_Witness ==
    /\ conv_op = "corr2d_multi_in"
    /\ MultiInShapes
    /\ conv_X.shape = <<2, 2, 2>>
    /\ conv_K.shape = <<2, 1, 2>>
    /\ conv_Y.shape = <<2, 1>>

\* C18: corr2d_multi_in does not check that X and K have the same number
\* of channels: when their axis-0 lengths c_X and c_K differ no error is
\* raised and the result is the sum over the first min(c_X, c_K) channels
\* only, Y[i, j] = sum over c < min(c_X, c_K), a, b of
\* X[c, i + a, j + b] * K[c, a, b]; the other channels of the longer
\* argument do not enter it.
C18_ChannelMismatchTruncates ==
    (/\ conv_op = "corr2d_multi_in"
     /\ Len(conv_X.shape) = 3
     /\ Len(conv_K.shape) = 3
     /\ conv_K.shape[1] # conv_X.shape[1]) =>
        LET n == Min(conv_X.shape[1], conv_K.shape[1])
        IN  /\ ~IsError(conv_Y)
            /\ conv_Y.shape = <<conv_X.shape[2] - conv_K.shape[2] + 1,
                                conv_X.shape[3] - conv_K.shape[3] + 1>>
            /\ Len(conv_Y.data) = Prod(conv_Y.shape)
            /\ \A i \in 0..(conv_Y.shape[1] - 1),
                  j \in 0..(conv_Y.shape[2] - 1) :
                  At2(conv_Y, i, j)
                    = SumSeq([c \in 1..n |->
                        SumSeq([a \in 1..conv_K.shape[2] |->
                          SumSeq([b \in 1..conv_K.shape[3] |->
                            At3(conv_X, c - 1, i + a - 1, j + b - 1)
                              * At3(conv_K, c - 1, a - 1, b - 1)])])])

C18_Witness ==
    /\ conv_op = "corr2d_multi_in"
    /\ conv_X = Arange(<<2, 2, 2>>, 0)
    /\ conv_K = Arange(<<1, 1, 1>>, -1)
    /\ conv_Y = Tensor(<<2, 2>>, <<0, -1, -2, -3>>)

\* C5: corr2d_multi_in_out(X, K) has exactly c_o channels on axis 0, in
\* kernel order: channel o is corr2d_multi_in(X, K[o]), and for a kernel
\* with the input's channel count
\* Y[o, i, j] = sum over c, a, b of X[c, i + a, j + b] * K[o, c, a, b].
C5_MultiInOutChannels ==
    (conv_op = "corr2d_multi_in_out" /\ Len(conv_K.shape) = 4) =>
        /\ Len(conv_Y.shape) = 3
        /\ conv_Y.shape[1] = conv_K.shape[1]
        /\ Len(conv_Y.data) = Prod(conv_Y.shape)
        /\ \A o \in 0..(conv_K.shape[1] - 1) :
              /\ Item(conv_Y, o) = corr2d_multi_in(conv_X, Item(conv_K, o))
              /\ MultiInOutShapes =>
                    \A i \in 0..(conv_Y.shape[2] - 1),
                       j \in 0..(conv_Y.shape[3] - 1) :
                        At(conv_Y, <<o, i, j>>)
                          = CrossCorrelationSum(conv_X, Item(conv_K, o), i, j)

C5_Witness ==
    /\ conv_op = "corr2d_multi_in_out"
    /\ MultiInOutShapes
    /\ conv_K.shape = <<2, 2, 2, 1>>
    /\ conv_X.shape = <<2, 2, 2>>
    /\ Item(conv_Y, 0) # Item(conv_Y, 1)

\* C3: for a 1x1 kernel K of shape (c_o, c_i, 1, 1) and X of shape
\* (c_i, h, w), corr2d_multi_in_out_1x1(X, K) has shape (c_o, h, w) and is
\* the tensor corr2d_multi_in_out(X, K), element for element.
C3_OneByOneEquivalent ==
    (conv_op = "corr2d_multi_in_out_1x1" /\ OneByOneShapes) =>
        /\ ~IsError(conv_Y)
        /\ conv_Y.shape = <<conv_K.shape[1], conv_X.shape[2], conv_X.shape[3]>>
        /\ conv_Y = corr2d_multi_in_out(conv_X, conv_K)

C3_Witness ==
    /\ conv_op = "corr2d_multi_in_out_1x1"
    /\ OneByOneShapes
    /\ conv_X.shape = <<2, 2, 2>>
    /\ conv_K.shape = <<2, 2, 1, 1>>
    /\ conv_Y.shape = <<2, 2, 2>>
    /\ conv_K.data = <<0, 1, 2, 3>>

\* X with d added to the element at flat position p (1-based).
Perturb(X, p, d) ==
    Tensor(X.shape, [o \in 1..Size(X) |->
                        IF o = p THEN X.data[o] + d ELSE X.data[o]])

\* C10: for a 1x1 kernel the output has the input's height and width,
\* output[o, i, j] = sum over c of K[o, c, 0, 0] * X[c, i, j], and changing X
\* at a position other than (i, j) leaves output[:, i, j] unchanged.
C10_OneByOnePointwise ==
    (conv_op = "corr2d_multi_in_out_1x1" /\ OneByOneShapes) =>
        /\ ~IsError(conv_Y)
        /\ Len(conv_Y.shape) = 3
        /\ conv_Y.shape[2] = conv_X.shape[2]
        /\ conv_Y.shape[3] = conv_X.shape[3]
        /\ \A o \in 0..(conv_K.shape[1] - 1),
              i \in 0..(conv_X.shape[2] - 1), j \in 0..(conv_X.shape[3] - 1) :
              /\ At(conv_Y, <<o, i, j>>)
                   = SumSeq([c \in 1..conv_X.shape[1] |->
                         At(conv_K, <<o, c - 1, 0, 0>>)
                           * At(conv_X, <<c - 1, i, j>>)])
              /\ \A p \in 1..Size(conv_X) :
                    LET at == Unravel(p - 1, conv_X.shape)
                    IN  (at[2] # i \/ at[3] # j) =>
                          At(corr2d_multi_in_out_1x1(Perturb(conv_X, p, 1),
                                                     conv_K), <<o, i, j>>)
                            = At(conv_Y, <<o, i, j>>)

C10_Witness ==
    /\ conv_op = "corr2d_multi_in_out_1x1"
    /\ OneByOneShapes
    /\ conv_X.shape = <<2, 2, 2>>
    /\ conv_K.shape[1] = 2
    /\ ~IsError(conv_Y)
    /\ At(conv_Y, <<1, 1, 0>>) # At(conv_Y, <<1, 0, 1>>)

\* C19: corr2d_multi_in_out_1x1 is defined only for 1x1 kernels: for X of
\* shape (c_i, h, w) and a kernel K of shape (c_o, c_i, k_h, k_w) with
\* k_h * k_w > 1 the reshape of K to (c_o, c_i) raises the library's error
\* and the call returns no tensor, neither the value of corr2d_multi_in_out
\* nor a different one; with k_h = k_w = 1 it returns a tensor.
C19_OneByOneOnly ==
    /\ (/\ conv_op = "corr2d_multi_in_out_1x1"
        /\ MultiInOutShapes
        /\ conv_K.shape[3] * conv_K.shape[4] > 1) =>
          /\ IsError(Reshape(conv_K, <<conv_K.shape[1], conv_X.shape[1]>>))
          /\ conv_Y = Raised("reshape")
          /\ ~IsError(corr2d_multi_in_out(conv_X, conv_K))
    /\ (conv_op = "corr2d_multi_in_out_1x1" /\ OneByOneShapes) =>
          ~IsError(conv_Y)

C19_Witness ==
    /\ conv_op = "corr2d_multi_in_out_1x1"
    /\ conv_X.shape = <<2, 2, 2>>
    /\ conv_K.shape = <<2, 2, 1, 2>>
    /\ IsError(conv_Y)

\* C6: in the notebook's validation cell corr2d_multi_in(X, K) is
\* [[56, 72], [104, 120]], and its first element is the worked sum
\* (1*1 + 2*2 + 4*3 + 5*4) + (0*0 + 1*1 + 3*2 + 4*3) = 56.
C6_ValidationOutput ==
    conv_cell = 3 =>
        /\ conv_Y = Tensor(<<2, 2>>, <<56, 72, 104, 120>>)
        /\ At(conv_Y, <<0, 0>>)
             = (1*1 + 2*2 + 4*3 + 5*4) + (0*0 + 1*1 + 3*2 + 4*3)
        /\ At(conv_Y, <<0, 0>>) = 56

C6_Witness ==
    /\ conv_cell = 3
    /\ conv_op = "corr2d_multi_in"
    /\ conv_X.shape = <<2, 3, 3>>
    /\ conv_K.data = <<0, 1, 2, 3, 1, 2, 3, 4>>

\* C7: after K = stack((K, K + 1, K + 2), 0), K has shape (3, 2, 2, 2) and
\* corr2d_multi_in_out(X, K) has 3 channels: [[56, 72], [104, 120]] (the
\* earlier single-output result), [[76, 100], [148, 172]] and
\* [[96, 128], [192, 224]].
C7_ThreeOutputChannels ==
    /\ conv_cell \in {5, 6} => conv_K.shape = <<3, 2, 2, 2>>
    /\ conv_cell = 5 => conv_Y = [dims |-> <<3, 2, 2, 2>>]
    /\ conv_cell = 6 =>
          /\ conv_Y.shape = <<3, 2, 2>>
          /\ Item(conv_Y, 0) = Tensor(<<2, 2>>, <<56, 72, 104, 120>>)
          /\ Item(conv_Y, 1) = Tensor(<<2, 2>>, <<76, 100, 148, 172>>)
          /\ Item(conv_Y, 2) = Tensor(<<2, 2>>, <<96, 128, 192, 224>>)
          /\ Len(conv_Y.data) = 12

C7_Witness ==
    /\ conv_cell = 6
    /\ conv_op = "corr2d_multi_in_out"
    /\ conv_K.shape[1] = 3
    /\ Item(conv_K, 0).data = <<0, 1, 2, 3, 1, 2, 3, 4>>

----------------------------------------------------------------------------
(* Properties of multi-head attention.                                     *)

\* num_heads divides num_hiddens.
HeadsDivideHiddens == mha_self.num_hiddens % mha_self.num_heads = 0

\* num_hiddens / num_heads
HeadDim == mha_self.num_hiddens \div mha_self.num_heads

\* T has as many elements as its shape says.
WellFormed(T) == Len(T.data) = Prod(T.shape)

\* C1: for X of shape (batch_size, n, num_hiddens) with num_heads dividing
\* num_hiddens, transpose_qkv(X) is a tensor and
\* transpose_output(transpose_qkv(X)) has the shape and the elements of X.
C1_TransposeOutputReverses ==
    /\ (mha_op = "transpose_qkv" /\ HeadsDivideHiddens) => ~IsError(mha_result)
    /\ (mha_op = "transpose_output" /\ HeadsDivideHiddens) =>
          /\ ~IsError(mha_result)
          /\ mha_result.shape = mha_queries.shape
          /\ mha_result.data = mha_queries.data

C1_Witness ==
    /\ mha_op = "transpose_output"
    /\ mha_self.num_heads = 2
    /\ mha_queries.shape = <<2, 2, 4>>
    /\ mha_result.shape = <<2, 2, 4>>

\* C8: transpose_qkv maps X of shape (batch_size, n, num_hiddens) to shape
\* (batch_size * num_heads, n, num_hiddens / num_heads) with
\* out[b * num_heads + i, j, k] = X[b, j, i * (num_hiddens / num_heads) + k];
\* __call__ hands the attention the projected queries transposed that way.
QkvLayout(out, X) ==
    /\ ~IsError(out)
    /\ out.shape = <<X.shape[1] * mha_self.num_heads, X.shape[2], HeadDim>>
    /\ WellFormed(out)
    /\ \A b \in 0..(X.shape[1] - 1), i \in 0..(mha_self.num_heads - 1),
          j \in 0..(X.shape[2] - 1), k \in 0..(HeadDim - 1) :
          At3(out, b * mha_self.num_heads + i, j, k)
            = At3(X, b, j, i * HeadDim + k)

C8_TransposeQkvLayout ==
    /\ (mha_op = "transpose_qkv" /\ HeadsDivideHiddens) =>
          QkvLayout(mha_result, mha_queries)
    /\ (mha_op = "__call__" /\ HeadsDivideHiddens) =>
          QkvLayout(mha_args.queries, Dense(mha_params.W_q, mha_queries))

C8_Witness ==
    /\ mha_op = "transpose_qkv"
    /\ mha_self.num_heads = 2
    /\ mha_queries.shape = <<2, 2, 4>>
    /\ mha_result.shape = <<4, 2, 2>>
    /\ At3(mha_result, 1, 0, 0) = 2

\* C9: with valid_lens not None, row r of the valid_lens handed to the
\* attention is valid_lens[r div num_heads], and row r of the transposed
\* queries, keys and values comes from batch item r div num_heads (head
\* r mod num_heads) of the projected queries, keys and values; for
\* valid_lens of shape (batch_size,) and (batch_size, no. of queries).
RowFromBatchItem(out, X, r) ==
    \A j \in 0..(X.shape[2] - 1), k \in 0..(HeadDim - 1) :
        At3(out, r, j, k)
          = At3(X, r \div mha_self.num_heads, j,
                (r % mha_self.num_heads) * HeadDim + k)

C9_ValidLensFollowHeads ==
    (mha_op = "__call__" /\ HeadsDivideHiddens /\ mha_valid_lens # None) =>
        /\ ~IsError(mha_args)
        /\ mha_args.valid_lens.shape
             = <<mha_valid_lens.shape[1] * mha_self.num_heads>>
                 \o Tail(mha_valid_lens.shape)
        /\ WellFormed(mha_args.valid_lens)
        /\ mha_args.queries.shape[1] = mha_args.valid_lens.shape[1]
        /\ mha_args.keys.shape[1] = mha_args.valid_lens.shape[1]
        /\ mha_args.values.shape[1] = mha_args.valid_lens.shape[1]
        /\ \A r \in 0..(mha_args.valid_lens.shape[1] - 1) :
              /\ Item(mha_args.valid_lens, r)
                   = Item(mha_valid_lens, r \div mha_self.num_heads)
              /\ RowFromBatchItem(mha_args.queries,
                                  Dense(mha_params.W_q, mha_queries), r)
              /\ RowFromBatchItem(mha_args.keys,
                                  Dense(mha_params.W_k, mha_keys), r)
              /\ RowFromBatchItem(mha_args.values,
                                  Dense(mha_params.W_v, mha_values), r)

C9_Witness ==
    /\ mha_op = "__call__"
    /\ mha_self.num_heads = 2
    /\ mha_self.num_hiddens = 4
    /\ mha_valid_lens # None
    /\ mha_valid_lens.shape = <<2, 2>>
    /\ mha_args.valid_lens.data = <<1, 2, 1, 2, 3, 4, 3, 4>>

\* C2: for queries of shape (batch_size, num_queries, num_hiddens), keys and
\* values of shape (batch_size, num_kvpairs, num_hiddens) and valid_lens
\* None, (batch_size,) or (batch_size, num_queries), the first value
\* __call__ returns has shape (batch_size, num_queries, num_hiddens).
C2_OutputShape ==
    (mha_op = "__call__" /\ HeadsDivideHiddens) =>
        /\ ~IsError(mha_result)
        /\ mha_result.output.shape
             = <<mha_queries.shape[1], mha_queries.shape[2],
                 mha_self.num_hiddens>>
        /\ WellFormed(mha_result.output)

C2_Witness ==
    /\ mha_op = "__call__"
    /\ mha_self.num_heads = 2
    /\ mha_self.num_hiddens = 4
    /\ mha_queries.shape = <<2, 1, 4>>
    /\ mha_keys.shape = <<2, 2, 4>>
    /\ mha_valid_lens # None
    /\ mha_valid_lens.shape = <<2>>
    /\ mha_result.output.shape = <<2, 1, 4>>

----------------------------------------------------------------------------
(* Properties of the tensor notebook.                                      *)

\* The arrays the names x and X are bound to.
ArrayOfx == tn_heap[tn_env.x]

ArrayOfX == tn_heap[tn_env.X]

\* C11: reshape changes the shape without altering the size or the values
\* and lays the elements out one row at a time: whenever X = x.reshape(h, w)
\* succeeds, X is a matrix with as many elements as x, X[i, j] = x[c * i + j]
\* for the c columns of X, and x is still arange(n).  For x = arange(12) and
\* reshape(3, 4) it succeeds, X has shape (3, 4) and 12 elements, and
\* x[3] = X[0, 3].
C11_ReshapeRowMajor ==
    /\ (tn_op = "reshape" /\ ~IsError(tn_out)) =>
          /\ ArrayOfx = Arange(<<Size(ArrayOfx)>>, 0)
          /\ Len(ArrayOfX.shape) = 2
          /\ Size(ArrayOfX) = Size(ArrayOfx)
          /\ ArrayOfX.shape[1] * ArrayOfX.shape[2] = Size(ArrayOfx)
          /\ \A i \in 0..(ArrayOfX.shape[1] - 1),
                j \in 0..(ArrayOfX.shape[2] - 1) :
                ArrayOfX.data[ArrayOfX.shape[2] * i + j + 1]
                  = ArrayOfx.data[ArrayOfX.shape[2] * i + j + 1]
          /\ tn_out = ArrayOfX
    /\ (tn_op = "reshape" /\ Size(ArrayOfx) = 12 /\ tn_args = <<3, 4>>) =>
          /\ ~IsError(tn_out)
          /\ ArrayOfX.shape = <<3, 4>>
          /\ Size(ArrayOfX) = 12
          /\ \A i \in 0..2, j \in 0..3 :
                At2(ArrayOfX, i, j) = At1(ArrayOfx, 4 * i + j)
          /\ At1(ArrayOfx, 3) = At2(ArrayOfX, 0, 3)

C11_Witness ==
    /\ tn_op = "reshape"
    /\ tn_args = <<3, 4>>
    /\ tn_env.X # 0
    /\ ArrayOfx.data = <<0, 1, 2, 3, 4, 5, 6, 7, 8, 9, 10, 11>>
    /\ ArrayOfX = Tensor(<<3, 4>>, <<0, 1, 2, 3, 4, 5, 6, 7, 8, 9, 10, 11>>)

\* C12: a shape component given as -1 is inferred from the size n of the
\* array and the other component: x.reshape(-1, w) is the matrix with n / w
\* rows and x.reshape(h, -1) the one with n / h columns whenever the given
\* component divides n, with the elements of x in their order.  For the
\* 12-element x, reshape(-1, 4) and reshape(3, -1) both give the (3, 4)
\* matrix that reshape(3, 4) gives.
C12_ReshapeInfers ==
    LET n == Size(ArrayOfx)
        h == tn_args[1]
        w == tn_args[2]
    IN  /\ (tn_op = "reshape" /\ h = -1 /\ w > 0 /\ n % w = 0) =>
              /\ tn_env.X # 0
              /\ tn_out = Tensor(<<n \div w, w>>, ArrayOfx.data)
              /\ ArrayOfX = tn_out
        /\ (tn_op = "reshape" /\ w = -1 /\ h > 0 /\ n % h = 0) =>
              /\ tn_env.X # 0
              /\ tn_out = Tensor(<<h, n \div h>>, ArrayOfx.data)
              /\ ArrayOfX = tn_out
        /\ (tn_op = "reshape" /\ n = 12
              /\ tn_args \in {<<-1, 4>>, <<3, -1>>, <<3, 4>>}) =>
              ArrayOfX = Tensor(<<3, 4>>,
                                <<0, 1, 2, 3, 4, 5, 6, 7, 8, 9, 10, 11>>)

C12_Witness ==
    /\ tn_op = "reshape"
    /\ tn_args = <<-1, 4>>
    /\ tn_env.X # 0
    /\ Size(ArrayOfx) = 12
    /\ ArrayOfX.shape = <<3, 4>>
    /\ ArrayOfX.data = ArrayOfx.data

\* C13: indexing a matrix with one index or one slice applies along axis 0:
\* X[i] with a negative i in range is row i + (number of rows), so X[-1] is
\* the last row, and X[start:stop] with start < stop within the rows holds
\* the rows start, .., stop - 1: row start is included, row stop is not.
\* For X = arange(12).reshape(3, 4), X[-1] is [8, 9, 10, 11] and X[1:3] is
\* [[4, 5, 6, 7], [8, 9, 10, 11]].
C13_IndexAndSliceAxis0 ==
    LET X     == ArrayOfX
        rows  == X.shape[1]
        cols  == X.shape[2]
        i     == tn_args[1]
        start == tn_args[2]
        stop  == tn_args[3]
    IN  /\ (tn_op = "index_slice" /\ i < 0 /\ 0 - i <= rows) =>
              /\ ~IsError(tn_out)
              /\ tn_out.index.shape = <<cols>>
              /\ \A j \in 0..(cols - 1) :
                    At1(tn_out.index, j) = At2(X, rows + i, j)
        /\ (tn_op = "index_slice" /\ ~IsError(tn_out)
              /\ start < stop /\ stop <= rows) =>
              /\ tn_out.slice.shape = <<stop - start, cols>>
              /\ Size(tn_out.slice) = (stop - start) * cols
              /\ \A r \in 0..(stop - start - 1), j \in 0..(cols - 1) :
                    At2(tn_out.slice, r, j) = At2(X, start + r, j)
        /\ (tn_op = "index_slice" /\ tn_args = <<-1, 1, 3>>
              /\ X = Arange(<<3, 4>>, 0)) =>
              tn_out = [index |-> Tensor(<<4>>, <<8, 9, 10, 11>>),
                        slice |-> Tensor(<<2, 4>>,
                                         <<4, 5, 6, 7, 8, 9, 10, 11>>)]

C13_Witness ==
    /\ tn_op = "index_slice"
    /\ tn_args = <<-1, 1, 3>>
    /\ ArrayOfX.shape = <<3, 4>>
    /\ ~IsError(tn_out)
    /\ tn_out.index.data = <<8, 9, 10, 11>>
    /\ tn_out.slice.shape = <<2, 4>>

\* C14: writing one element by index, X[i, j] = 17 with (i, j) in range,
\* sets exactly the element at row i, column j of X to 17: every other
\* element of X, the shape of X, the array X is bound to, and every other
\* array are as they were before the statement.  X[1, 2] = 17 on
\* arange(12).reshape(3, 4) gives the recorded [[0, 1, 2, 3],
\* [4, 5, 17, 7], [8, 9, 10, 11]].  An index out of range writes nothing.
C14_SetItemFrame ==
    [][ tn_op' = "setitem" =>
          LET old == tn_heap[tn_env.X]
              new == tn_heap'[tn_env'.X]
              i   == tn_args'[1]
              j   == tn_args'[2]
          IN  IF IsError(tn_out')
              THEN tn_heap' = tn_heap /\ tn_env' = tn_env
              ELSE /\ tn_env' = tn_env
                   /\ new.shape = old.shape
                   /\ Size(new) = Size(old)
                   /\ At2(new, i, j) = 17
                   /\ \A r \in 0..(old.shape[1] - 1),
                         c \in 0..(old.shape[2] - 1) :
                         (r # i \/ c # j) => At2(new, r, c) = At2(old, r, c)
                   /\ Len(tn_heap') = Len(tn_heap)
                   /\ \A o \in 1..Len(tn_heap) :
                         o # tn_env.X => tn_heap'[o] = tn_heap[o]
                   /\ tn_out' = new
                   /\ (old = Arange(<<3, 4>>, 0) /\ i = 1 /\ j = 2) =>
                         new = Tensor(<<3, 4>>,
                                      <<0, 1, 2, 3, 4, 5, 17, 7, 8, 9, 10, 11>>)
      ]_vars

C14_Witness ==
    /\ tn_op = "setitem"
    /\ tn_args = <<1, 2>>
    /\ ArrayOfX = Tensor(<<3, 4>>, <<0, 1, 2, 3, 4, 5, 17, 7, 8, 9, 10, 11>>)
    /\ ArrayOfx = Arange(<<12>>, 0)

\* C15: Y = Y + X allocates a new array for the result and rebinds Y to it,
\* so id(Y) differs from its value before the statement (and the array Y
\* was bound to is untouched), whereas Z[:] = X + Y and X += Y write the
\* result into the existing array: id(Z) printed before and after the slice
\* assignment is the same, and id(X) after X += Y equals its value before.
C15_RebindVersusInPlace ==
    [][ /\ tn_op' = "rebind_add" =>
              /\ tn_env'.Y # tn_env.Y
              /\ tn_env'.Y \notin 1..Len(tn_heap)
              /\ tn_env'.before = tn_env.Y
              /\ tn_out' = FALSE
              /\ tn_heap'[tn_env'.Y]
                   = Add(tn_heap[tn_env.Y], tn_heap[tn_env.X])
              /\ \A o \in 1..Len(tn_heap) : tn_heap'[o] = tn_heap[o]
              /\ tn_env'.X = tn_env.X
        /\ tn_op' = "slice_assign" =>
              /\ tn_out'[1] = tn_out'[2]
              /\ tn_env'.Z = tn_out'[2]
              /\ tn_env'.Z \notin {tn_env.X, tn_env.Y}
              /\ tn_heap'[tn_env'.Z]
                   = Add(tn_heap[tn_env.X], tn_heap[tn_env.Y])
              /\ tn_env'.X = tn_env.X /\ tn_env'.Y = tn_env.Y
              /\ \A o \in 1..Len(tn_heap) : tn_heap'[o] = tn_heap[o]
        /\ tn_op' = "iadd" =>
              /\ tn_env'.X = tn_env.X
              /\ tn_env'.before = tn_env.X
              /\ tn_out' = TRUE
              /\ Len(tn_heap') = Len(tn_heap)
              /\ tn_heap'[tn_env.X]
                   = Add(tn_heap[tn_env.X], tn_heap[tn_env.Y])
              /\ \A o \in 1..Len(tn_heap) :
                    o # tn_env.X => tn_heap'[o] = tn_heap[o]
              /\ tn_env'.Y = tn_env.Y
      ]_vars

C15_Witness ==
    /\ tn_op = "iadd"
    /\ tn_out = TRUE
    /\ tn_env.X = tn_env.before
    /\ tn_heap[tn_env.Y] = NotebookY
    /\ ArrayOfX = Tensor(<<3, 4>>, <<2, 2, 6, 6, 5, 7, 9, 11, 12, 12, 12, 12>>)

\* The features i * d .. (i + 1) * d - 1 of batch item b of P, as a tensor
\* of shape (1, n, d).
HeadSlice(P, b, i, d) ==
    Tensor(<<1, P.shape[2], d>>,
           [o \in 1..(P.shape[2] * d) |->
               At3(P, b, (o - 1) \div d, i * d + ((o - 1) % d))])

\* The valid lengths of batch item b, as valid_lens of a batch of one.
ValidLensOf(valid_lens, b) ==
    IF valid_lens = None THEN None
    ELSE Tensor(<<1>> \o Tail(valid_lens.shape), Item(valid_lens, b).data)

\* P with delta added to the features i * d .. (i + 1) * d - 1 of batch
\* item b.
PerturbSlice(P, b, i, d, delta) ==
    Tensor(P.shape,
           [o \in 1..Size(P) |->
               IF (o - 1) \div (P.shape[2] * P.shape[3]) = b
                    /\ ((o - 1) % P.shape[3]) \div d = i
               THEN P.data[o] + delta ELSE P.data[o]])

\* C17: in __call__ the heads and batch items are isolated through the
\* transpositions.  With d = num_hiddens / num_heads, Pq, Pk, Pv the
\* projected queries, keys and values and att the attention primitive's
\* output on the transposed arguments: the value returned is W_o applied
\* to output_concat; output_concat[b, q, i * d + k] = att[b * num_heads + i,
\* q, k]; row b * num_heads + i of att is the attention computed from the
\* features i * d .. (i + 1) * d - 1 of batch item b of Pq, Pk, Pv and the
\* valid lengths of batch item b alone; and changing the feature slice of
\* any (batch item, head) in Pq, Pk and Pv leaves the slices
\* output_concat[b, q, i * d : (i + 1) * d] of every other (b, i) unchanged.
C17_HeadsAndBatchIsolated ==
    (mha_op = "__call__" /\ HeadsDivideHiddens) =>
        LET h   == mha_self.num_heads
            d   == HeadDim
            B   == mha_queries.shape[1]
            nq  == mha_queries.shape[2]
            Pq  == Dense(mha_params.W_q, mha_queries)
            Pk  == Dense(mha_params.W_k, mha_keys)
            Pv  == Dense(mha_params.W_v, mha_values)
            att == DotProductAttention(mha_args.queries, mha_args.keys,
                                       mha_args.values,
                                       mha_args.valid_lens).output
            oc  == transpose_output(mha_self, att)
        IN  /\ ~IsError(oc)
            /\ oc = output_concat(mha_self, Pq, Pk, Pv, mha_valid_lens)
            /\ mha_result.output = Dense(mha_params.W_o, oc)
            /\ oc.shape = <<B, nq, h * d>>
            /\ \A b \in 0..(B - 1), i \in 0..(h - 1) :
                  /\ \A q \in 0..(nq - 1), k \in 0..(d - 1) :
                        At3(oc, b, q, i * d + k) = At3(att, b * h + i, q, k)
                  /\ Item(att, b * h + i)
                       = Item(DotProductAttention(
                                  HeadSlice(Pq, b, i, d),
                                  HeadSlice(Pk, b, i, d),
                                  HeadSlice(Pv, b, i, d),
                                  ValidLensOf(mha_valid_lens, b)).output, 0)
                  /\ LET oc2 == output_concat(mha_self,
                                    PerturbSlice(Pq, b, i, d, 1),
                                    PerturbSlice(Pk, b, i, d, 2),
                                    PerturbSlice(Pv, b, i, d, 3),
                                    mha_valid_lens)
                     IN  \A b2 \in 0..(B - 1), q \in 0..(nq - 1),
                            f \in 0..(h * d - 1) :
                            (b2 # b \/ f \div d # i) =>
                                At3(oc2, b2, q, f) = At3(oc, b2, q, f)

C17_Witness ==
    /\ mha_op = "__call__"
    /\ mha_self.num_heads = 2
    /\ mha_self.num_hiddens = 4
    /\ mha_queries.shape = <<2, 2, 4>>
    /\ mha_keys.shape = <<2, 2, 4>>
    /\ mha_valid_lens # None
    /\ mha_valid_lens.shape = <<2, 2>>
    /\ ~IsError(mha_result)
    /\ \E o \in 1..Size(mha_result.output) : mha_result.output.data[o] # 0

----------------------------------------------------------------------------
(* Properties of the notebooks as scripts.                                 *)

\* The names the first n cells of a notebook bind.
BoundBy(cells, n) ==
    UNION { UNION { cells[c][k].writes : k \in 1..Len(cells[c]) } :
              c \in 1..n }

\* C16: each notebook is an independent linear script.  Whenever the next
\* code cell of a notebook is executed, the cells of every notebook having
\* been executed once each in document order so far: every name a statement
\* of the cell reads is a builtin or has been bound by an import, by an
\* earlier cell or by an earlier statement of the cell, all of the same
\* notebook, so no NameError is raised; the names bound in the notebook's
\* kernel are exactly the builtins and those its own cells bound; and no
\* other notebook's namespace or position changes.
C16_NotebooksLinearAndIndependent ==
    [][ \E nb \in Notebooks :
          LET cells == CellsOf(nb)
              cell  == cells[nb_done'[nb]]
          IN  /\ nb_done'[nb] = nb_done[nb] + 1
              /\ nb_done'[nb] <= Len(cells)
              /\ \A k \in 1..Len(cell) :
                    cell[k].reads \subseteq
                        Builtins \cup BoundBy(cells, nb_done[nb])
                          \cup UNION { cell[j].writes : j \in 1..(k - 1) }
              /\ nb_error' = {}
              /\ nb_names'[nb] = Builtins \cup BoundBy(cells, nb_done'[nb])
              /\ \A m \in Notebooks \ {nb} :
                    nb_done'[m] = nb_done[m] /\ nb_names'[m] = nb_names[m]
      ]_vars

C16_Witness ==
    /\ nb_done = [nb \in Notebooks |-> Len(CellsOf(nb))]
    /\ nb_error = {}
    /\ "before" \in nb_names["tensor"]
    /\ "before" \notin nb_names["conv"]
    /\ "Y2" \in nb_names["conv"]
    /\ "attention" \in nb_names["attention"]
    /\ nb_names["docs"] = Builtins \cup {"tf"}

====
